---- MODULE Spec2Model ----
(***************************************************************************)
(* A model of the ASW schedule exporter (umsername/aswCalender): the       *)
(* weekly-table grid reconstruction (parseWeekTable), the header date      *)
(* mapping (extractHeaderDates), the cell text normalizer (splitCellLines),*)
(* the event field extractor (parseEventCell), the document loop           *)
(* (parseScheduleDetails), the series key (extractClassKey), the duplicate *)
(* removal (dedupeEvents) and the export cycle (runFullCycle).             *)
(*                                                                         *)
(* Go strings are TLA+ strings; a "character" is a string of length 1.     *)
(***************************************************************************)
EXTENDS Integers, Sequences, FiniteSets, TLC

VARIABLES
    pc,         \* position of the component under analysis
    rawHTML,    \* the markup of the cell handed to splitCellLines / parseEventCell
    lines,      \* the line list splitCellLines returned for rawHTML
    relines,    \* the line list returned for the joined lines
    date,       \* parseEventCell: the date of the cell's column
    ev,         \* parseEventCell: the result, [ok, event]
    headerRow,  \* extractHeaderDates: the td cells of the header row
    dateByCol,  \* the map from logical column to date
    totalCols,  \* the number of logical columns
    hdr,        \* parseWeekTable: colspan and date of each header cell
    occ,        \* parseWeekTable: per column, the rows it is still reserved for
    colCursor,  \* parseWeekTable: the cursor of the current row
    events,     \* parseWeekTable: the events found so far
    rowNo,      \* parseWeekTable: the body rows begun
    cellNo,     \* parseWeekTable: the cells seen
    active,     \* the cells placed that reach into the current row
    last,       \* the cell seen last and what became of it
    noRows,     \* parseWeekTable: the table has no tr at all
    tableNo,    \* parseScheduleDetails: the tables begun
    all,        \* parseScheduleDetails: the events of the tables done
    tables,     \* parseScheduleDetails: the tables of the document
    prevOcc,    \* the occupancy array as the table before left it
    links,      \* runFullCycle: the course links and what their pages give
    linkNo,     \* runFullCycle: the links done
    classEvents, \* runFullCycle: the events per class key
    todo,       \* runFullCycle: the class keys not yet written
    files,      \* the files of the output directory
    site,       \* the files of the public directory
    err,        \* runFullCycle: the error returned, "" for nil
    aggregated, \* generateSite: the names splitAggregated took for aggregated
    individual, \* generateSite: the other names
    evsIn,      \* dedupeEvents: the list handed in
    evsOut,     \* dedupeEvents: the list returned
    evsAgain,   \* dedupeEvents: the list returned for the returned list
    course,     \* extractClassKey: a course name
    variant,    \* the course name with other separators for its hyphens
    classKey,   \* extractClassKey: the key of the course name
    variantKey, \* extractClassKey: the key of the variant
    reKey       \* extractClassKey: the key of the key

linesVars  == <<rawHTML, lines, relines>>
cellVars   == <<date, ev>>
headerVars == <<headerRow, dateByCol, totalCols>>
gridVars   == <<noRows, hdr, occ, colCursor, events, rowNo, cellNo, active, last>>
docVars    == <<tableNo, all, tables, prevOcc>>
cycleVars  == <<links, linkNo, classEvents, todo, files, site, err, aggregated,
                individual>>
dedupeVars == <<evsIn, evsOut, evsAgain>>
keyVars    == <<course, variant, classKey, variantKey, reKey>>
restVars   == <<docVars, cycleVars, dedupeVars, keyVars>>

vars == <<pc, linesVars, cellVars, headerVars, gridVars, restVars>>

----------------------------------------------------------------------------
(* Strings                                                                 *)

Min(a, b) == IF a < b THEN a ELSE b
Max(a, b) == IF a > b THEN a ELSE b

\* The part of s from position i to position j, cut to the positions s has.
Sub(s, i, j) ==
    IF Max(i, 1) > Min(j, Len(s)) THEN SubSeq(s, 1, 0)
    ELSE SubSeq(s, Max(i, 1), Min(j, Len(s)))

\* The i-th byte of s, "" when i is out of range.
Ch(s, i) == IF i >= 1 /\ i <= Len(s) THEN SubSeq(s, i, i) ELSE ""

\* s[i:] of Go, with i counted from 1.
From(s, i) == Sub(s, i, Len(s))

HasPrefixAt(s, p, i) == i + Len(p) - 1 <= Len(s) /\ Sub(s, i, i + Len(p) - 1) = p

HasPrefix(s, p) == HasPrefixAt(s, p, 1)

Contains(s, sub) == \E i \in 1..(Len(s) + 1) : HasPrefixAt(s, sub, i)

Digits == {"0", "1", "2", "3", "4", "5", "6", "7", "8", "9"}

IsDigit(c) == c \in Digits

UpperLetters == "ABCDEFGHIJKLMNOPQRSTUVWXYZ"
LowerLetters == "abcdefghijklmnopqrstuvwxyz"

IsLetter(c) == \E i \in 1..26 : c = Ch(UpperLetters, i) \/ c = Ch(LowerLetters, i)

IsAlnum(c) == IsLetter(c) \/ IsDigit(c)

\* U+00A0, the character html.UnescapeString produces for "&nbsp;".
NBSP == "~"

\* \s of Go's regexp (RE2): ASCII white space only.
RegexSpace == {" ", "\t", "\n", "\f", "\r"}

\* unicode.IsSpace, which strings.TrimSpace uses: it includes U+00A0.
UnicodeSpace == RegexSpace \cup {NBSP}

LowerCh(c) ==
    IF \E i \in 1..26 : c = Ch(UpperLetters, i)
    THEN Ch(LowerLetters, CHOOSE i \in 1..26 : c = Ch(UpperLetters, i))
    ELSE c

RECURSIVE ToLower(_)
ToLower(s) == IF s = "" THEN "" ELSE LowerCh(Head(s)) \o ToLower(Tail(s))

EqualFold(a, b) == ToLower(a) = ToLower(b)

RECURSIVE TrimLeft(_)
TrimLeft(s) == IF s # "" /\ Head(s) \in UnicodeSpace THEN TrimLeft(Tail(s)) ELSE s

RECURSIVE TrimRight(_)
TrimRight(s) ==
    IF s # "" /\ Ch(s, Len(s)) \in UnicodeSpace
    THEN TrimRight(Sub(s, 1, Len(s) - 1))
    ELSE s

TrimSpace(s) == TrimRight(TrimLeft(s))

RECURSIVE ReplaceAll(_, _, _)
ReplaceAll(s, old, new) ==
    IF s = "" THEN ""
    ELSE IF HasPrefix(s, old) THEN new \o ReplaceAll(From(s, Len(old) + 1), old, new)
    ELSE Head(s) \o ReplaceAll(Tail(s), old, new)

\* strings.Split(s, "\n"): always at least one element.
RECURSIVE SplitLines(_)
SplitLines(s) ==
    IF ~Contains(s, "\n") THEN <<s>>
    ELSE LET i == CHOOSE k \in 1..Len(s) :
                      Ch(s, k) = "\n" /\ \A j \in 1..(k - 1) : Ch(s, j) # "\n"
         IN <<Sub(s, 1, i - 1)>> \o SplitLines(From(s, i + 1))

RECURSIVE Join(_, _)
Join(ls, sep) ==
    IF ls = <<>> THEN ""
    ELSE IF Len(ls) = 1 THEN ls[1]
    ELSE ls[1] \o sep \o Join(Tail(ls), sep)

Letters == {Ch(UpperLetters, i) : i \in 1..26} \cup {Ch(LowerLetters, i) : i \in 1..26}

\* The number of consecutive characters of s from position i that lie in set.
RunLen(s, i, set) ==
    CHOOSE n \in 0..Len(s) :
        /\ \A j \in 0..(n - 1) : Ch(s, i + j) \in set
        /\ Ch(s, i + n) \notin set

\* The position of the first occurrence of character c in s, 0 when absent.
IndexOf(s, c) ==
    IF \E k \in 1..Len(s) : Ch(s, k) = c
    THEN CHOOSE k \in 1..Len(s) : Ch(s, k) = c /\ \A j \in 1..(k - 1) : Ch(s, j) # c
    ELSE 0

----------------------------------------------------------------------------
(* Cell Text Normalizer: splitCellLines                                    *)

\* tagRe.ReplaceAllString(s, "") for tagRe = <[^>]*> : every "<" that has
\* a ">" somewhere after it is removed together with everything up to the
\* first such ">" (the negated class also matches line breaks).
RECURSIVE StripTags(_)
StripTags(s) ==
    IF s = "" THEN ""
    ELSE IF Head(s) = "<" /\ IndexOf(s, ">") > 0
         THEN StripTags(From(s, IndexOf(s, ">") + 1))
         ELSE Head(s) \o StripTags(Tail(s))

\* The entity table of package html, restricted to the names that strings
\* over the modelled alphabet can spell.  Names without ";" are the legacy
\* forms html.UnescapeString also accepts as a prefix of a longer name.
entity ==
    ("amp;" :> "&") @@ ("lt;" :> "<") @@ ("gt;" :> ">") @@ ("nbsp;" :> NBSP) @@
    ("amp" :> "&") @@ ("lt" :> "<") @@ ("gt" :> ">") @@ ("nbsp" :> NBSP)

\* html.UnescapeString: at each "&" the entity name is the longest run of
\* letters and digits plus a following ";".  A known name is replaced; else
\* the longest known proper prefix of 2 to 6 characters is; else the
\* text is copied as it is.
RECURSIVE UnescapeString(_)
UnescapeString(s) ==
    IF s = "" THEN ""
    ELSE IF Head(s) # "&" THEN Head(s) \o UnescapeString(Tail(s))
    ELSE LET n       == RunLen(s, 2, Letters \cup Digits)
             nameLen == IF Ch(s, n + 2) = ";" THEN n + 1 ELSE n
             name    == Sub(s, 2, nameLen + 1)
             maxLen  == Min(nameLen - 1, 6)
             js      == {j \in 2..maxLen : Sub(name, 1, j) \in DOMAIN entity}
         IN IF nameLen = 0 THEN "&" \o UnescapeString(Tail(s))
            ELSE IF name \in DOMAIN entity
                 THEN entity[name] \o UnescapeString(From(s, nameLen + 2))
            ELSE IF js # {}
                 THEN LET j == CHOOSE k \in js : \A m \in js : m <= k
                      IN entity[Sub(name, 1, j)] \o UnescapeString(From(s, j + 2))
            ELSE Sub(s, 1, nameLen + 1) \o UnescapeString(From(s, nameLen + 2))

\* The end (one past) of the match of footnoteRe = \s*\[\d+\]\s* that starts
\* at position i of s, 0 when there is none.  Both \s* are greedy and the
\* match needs the "[" right after the run of white space.
FootnoteEnd(s, i) ==
    LET a == i + RunLen(s, i, RegexSpace)
        d == RunLen(s, a + 1, Digits)
    IN IF Ch(s, a) = "[" /\ d >= 1 /\ Ch(s, a + 1 + d) = "]"
       THEN a + d + 2 + RunLen(s, a + d + 2, RegexSpace)
       ELSE 0

\* footnoteRe.ReplaceAllString(l, ""): leftmost matches, one pass.
RECURSIVE RemoveFootnotes(_)
RemoveFootnotes(s) ==
    IF s = "" THEN ""
    ELSE IF FootnoteEnd(s, 1) > 0 THEN RemoveFootnotes(From(s, FootnoteEnd(s, 1)))
    ELSE Head(s) \o RemoveFootnotes(Tail(s))

splitCellLines(raw) ==
    LET s1       == ReplaceAll(raw, "<br/>", "\n")
        s2       == ReplaceAll(s1, "<br />", "\n")
        s3       == ReplaceAll(s2, "<br>", "\n")
        s4       == StripTags(s3)
        s5       == UnescapeString(s4)
        rawLines == SplitLines(s5)
        cleaned  == [i \in 1..Len(rawLines) |-> RemoveFootnotes(TrimSpace(rawLines[i]))]
    IN SelectSeq(cleaned, LAMBDA l : l # "")


----------------------------------------------------------------------------
(* Event Field Extractor: extractTimeRange, parseClock, parseEventCell     *)

\* The end (one past) of a match of \d{1,2}:\d{2} that starts at position i
\* of s, 0 when there is none.  \d{1,2} tries two digits first.
ClockEnd(s, i) ==
    IF /\ IsDigit(Ch(s, i)) /\ IsDigit(Ch(s, i + 1)) /\ Ch(s, i + 2) = ":"
       /\ IsDigit(Ch(s, i + 3)) /\ IsDigit(Ch(s, i + 4))
    THEN i + 5
    ELSE IF /\ IsDigit(Ch(s, i)) /\ Ch(s, i + 1) = ":"
            /\ IsDigit(Ch(s, i + 2)) /\ IsDigit(Ch(s, i + 3))
    THEN i + 4
    ELSE 0

\* The match of (\d{1,2}:\d{2})\s*-\s*(\d{1,2}:\d{2}) that starts at position
\* i of s: <<found, group 1, group 2>>.
RangeAt(s, i) ==
    LET e1 == ClockEnd(s, i)
        a  == e1 + RunLen(s, e1, RegexSpace)
        b  == a + 1 + RunLen(s, a + 1, RegexSpace)
        e2 == ClockEnd(s, b)
    IN IF e1 > 0 /\ Ch(s, a) = "-" /\ e2 > 0
       THEN <<TRUE, Sub(s, i, e1 - 1), Sub(s, b, e2 - 1)>>
       ELSE <<FALSE, "", "">>

\* re.FindStringSubmatch(text): the leftmost match, <<"", "">> without one.
extractTimeRange(text) ==
    LET starts == {i \in 1..Len(text) : RangeAt(text, i)[1]}
    IN IF starts = {} THEN <<"", "">>
       ELSE LET i == CHOOSE k \in starts : \A m \in starts : k <= m
            IN <<RangeAt(text, i)[2], RangeAt(text, i)[3]>>

DigitVal(c) == CHOOSE d \in 0..9 : Ch("0123456789", d + 1) = c

\* strconv.Atoi of a non-empty string of digits.
RECURSIVE Atoi(_)
Atoi(s) ==
    IF s = "" THEN 0
    ELSE Atoi(Sub(s, 1, Len(s) - 1)) * 10 + DigitVal(Ch(s, Len(s)))

\* parseClock with an hour range that ends at 24.
parseClock_Hour24(str) ==
    LET s     == TrimSpace(str)
        colon == IndexOf(s, ":")
        h     == Atoi(Sub(s, 1, colon - 1))
        min   == Atoi(From(s, colon + 1))
    IN IF ClockEnd(s, 1) # Len(s) + 1 THEN [h |-> 0, min |-> 0, ok |-> FALSE]
       ELSE IF h < 0 \/ h > 24 \/ min < 0 \/ min > 59
            THEN [h |-> 0, min |-> 0, ok |-> FALSE]
       ELSE [h |-> h, min |-> min, ok |-> TRUE]

\* parseClock: [h, min, ok].
parseClock(str) ==
    LET s     == TrimSpace(str)
        colon == IndexOf(s, ":")
        h     == Atoi(Sub(s, 1, colon - 1))
        min   == Atoi(From(s, colon + 1))
    IN IF ClockEnd(s, 1) # Len(s) + 1 THEN [h |-> 0, min |-> 0, ok |-> FALSE]
       ELSE IF h < 0 \/ h > 23 \/ min < 0 \/ min > 59
            THEN [h |-> 0, min |-> 0, ok |-> FALSE]
       ELSE [h |-> h, min |-> min, ok |-> TRUE]

\* The time zone of the events.
tzID == "Europe/Berlin"

\* loc of parseScheduleDetails: time.LoadLocation(tzID), which the image
\* serves from its copy of the zone database; the fallback time.Local is the
\* same zone there, the image setting TZ to it.
Location == tzID

\* The zero time.Time, as a date and as a time stamp.
ZeroDate == [y |-> 1, m |-> 1, d |-> 1]
ZeroTime == [y |-> 1, m |-> 1, d |-> 1, h |-> 0, min |-> 0, loc |-> "UTC"]

\* The zero ScheduleEvent.
NoEvent ==
    [CourseName |-> "", Summary |-> "", Location |-> "", Description |-> "",
     Start |-> ZeroTime, End |-> ZeroTime]

\* The day of a time stamp.
DayOf(t) == [y |-> t.y, m |-> t.m, d |-> t.d]

\* time.Date that leaves the clock at midnight.
TimeDate_Midnight(d, h, min) ==
    [y |-> d.y, m |-> d.m, d |-> d.d, h |-> 0, min |-> 0, loc |-> Location]

\* time.Date(date.Year(), date.Month(), date.Day(), h, min, 0, 0, loc): the
\* wall-clock reading in the one zone loc.
TimeDate(d, h, min) ==
    [y |-> d.y, m |-> d.m, d |-> d.d, h |-> h, min |-> min, loc |-> Location]

\* The first line of ls that begins with "NK:" or "EXT:", "" when none does.
FirstPrefixed(ls) ==
    LET hit(l) == HasPrefix(l, "NK:") \/ HasPrefix(l, "EXT:")
        is     == {i \in 1..Len(ls) : hit(ls[i])}
    IN IF is = {} THEN "" ELSE ls[CHOOSE i \in is : \A j \in is : i <= j]

\* "ASW event", the summary of a cell that has neither module nor type line.
GenericSummary == "ASW event"

\* "Reserviert", the marker of a placeholder cell.
ReservedMarker == "Reserviert"

\* The placeholder test with a comparison that tells the cases apart.
isReserved_CaseSensitive(ls) == Len(ls) >= 2 /\ TrimSpace(ls[2]) = ReservedMarker

\* The placeholder test of parseEventCell.
isReserved(ls) == Len(ls) >= 2 /\ EqualFold(TrimSpace(ls[2]), ReservedMarker)

\* The summary rules with a substring test that tells the cases apart.
buildSummary_CaseSensitive(typeLine, moduleLine) ==
    LET summary == IF moduleLine # "" THEN moduleLine
                   ELSE IF typeLine # "" THEN typeLine
                   ELSE GenericSummary
    IN IF /\ typeLine # "" /\ moduleLine # ""
          /\ ~Contains(moduleLine, typeLine)
       THEN moduleLine \o " (" \o typeLine \o ")"
       ELSE summary

\* The summary rules of parseEventCell.
buildSummary(typeLine, moduleLine) ==
    LET summary == IF moduleLine # "" THEN moduleLine
                   ELSE IF typeLine # "" THEN typeLine
                   ELSE GenericSummary
    IN IF /\ typeLine # "" /\ moduleLine # ""
          /\ ~Contains(ToLower(moduleLine), ToLower(typeLine))
       THEN moduleLine \o " (" \o typeLine \o ")"
       ELSE summary

\* The location rules with the module line scanned before the type line.
findLocation_ModuleFirst(locationLine, typeLine, moduleLine, extra) ==
    IF locationLine # "" THEN locationLine
    ELSE FirstPrefixed(<<moduleLine, typeLine>> \o extra)

\* The location rules of parseEventCell.
findLocation(locationLine, typeLine, moduleLine, extra) ==
    IF locationLine # "" THEN locationLine
    ELSE FirstPrefixed(<<typeLine, moduleLine>> \o extra)

\* The description of parseEventCell.
buildDescription(courseName, typeLine, moduleLine, location, extra) ==
    Join(<<"Course: " \o courseName>>
         \o (IF typeLine # "" THEN <<"Type: " \o typeLine>> ELSE <<>>)
         \o (IF moduleLine # "" THEN <<"Module/Group: " \o moduleLine>> ELSE <<>>)
         \o (IF location # "" THEN <<"Location: " \o location>> ELSE <<>>)
         \o SelectSeq(extra, LAMBDA l : l # ""),
         "\n")

\* parseEventCell from the line list on: [ok, event].
EventOfLines(ls, d, courseName) ==
    LET range        == extractTimeRange(Join(ls, " "))
        typeLine     == IF Len(ls) > 1 THEN ls[2] ELSE ""
        moduleLine   == IF Len(ls) > 2 THEN ls[3] ELSE ""
        locationLine == IF Len(ls) > 3 THEN ls[4] ELSE ""
        extra        == IF Len(ls) > 4 THEN Sub(ls, 5, Len(ls)) ELSE <<>>
        startClock   == parseClock(range[1])
        endClock     == parseClock(range[2])
        location     == findLocation(locationLine, typeLine, moduleLine, extra)
    IN IF Len(ls) = 0 THEN [ok |-> FALSE, event |-> NoEvent]
       ELSE IF range[1] = "" \/ range[2] = "" THEN [ok |-> FALSE, event |-> NoEvent]
       ELSE IF isReserved(ls) THEN [ok |-> FALSE, event |-> NoEvent]
       ELSE IF ~startClock.ok THEN [ok |-> FALSE, event |-> NoEvent]
       ELSE IF ~endClock.ok THEN [ok |-> FALSE, event |-> NoEvent]
       ELSE [ok |-> TRUE,
             event |-> [CourseName  |-> courseName,
                        Summary     |-> buildSummary(typeLine, moduleLine),
                        Location    |-> location,
                        Description |-> buildDescription(courseName, typeLine,
                                                         moduleLine, location, extra),
                        Start       |-> TimeDate(d, startClock.h, startClock.min),
                        End         |-> TimeDate(d, endClock.h, endClock.min)]]

parseEventCell(raw, d, courseName) == EventOfLines(splitCellLines(raw), d, courseName)

----------------------------------------------------------------------------
(* Header Date Mapper: getSpan, time.Parse, extractHeaderDates             *)

\* s.Attr(name) of a cell: the attribute's value, ok being false when the
\* cell has no such attribute.
NoAttr == [ok |-> FALSE, v |-> ""]
Attr(v) == [ok |-> TRUE, v |-> v]

\* strconv.Atoi accepts a sign and at least one digit.
AtoiOk(s) ==
    LET body == IF Ch(s, 1) \in {"+", "-"} THEN Tail(s) ELSE s
    IN body # "" /\ \A i \in 1..Len(body) : IsDigit(Ch(body, i))

AtoiSigned(s) ==
    IF Ch(s, 1) = "-" THEN 0 - Atoi(Tail(s))
    ELSE IF Ch(s, 1) = "+" THEN Atoi(Tail(s))
    ELSE Atoi(s)

\* getSpan: the colspan or rowspan of a cell, 1 when the attribute is
\* missing, is no number or is less than 1.
getSpan(attr) ==
    IF ~attr.ok THEN 1
    ELSE IF ~AtoiOk(TrimSpace(attr.v)) \/ AtoiSigned(TrimSpace(attr.v)) < 1 THEN 1
    ELSE AtoiSigned(TrimSpace(attr.v))

\* The layout time.Parse is given for the dates of the header cells.
dateFormat == "27.01.2006"

\* nextStdChunk of package time for layouts made of digits and dots: the
\* first reference element of the layout, <<prefix, element, suffix>>.  "2006"
\* is the year, "01" the month, "02" the day in two digits, "1" the month and
\* "2" the day in one or two digits; every other character is literal text.
NextStdChunk(layout) ==
    LET stdAt(i) ==
            IF HasPrefixAt(layout, "2006", i) THEN <<"stdLongYear", 4>>
            ELSE IF HasPrefixAt(layout, "01", i) THEN <<"stdZeroMonth", 2>>
            ELSE IF HasPrefixAt(layout, "02", i) THEN <<"stdZeroDay", 2>>
            ELSE IF HasPrefixAt(layout, "1", i) THEN <<"stdNumMonth", 1>>
            ELSE IF HasPrefixAt(layout, "2", i) THEN <<"stdDay", 1>>
            ELSE <<"", 0>>
        is == {i \in 1..Len(layout) : stdAt(i)[2] > 0}
    IN IF is = {} THEN <<layout, "", "">>
       ELSE LET i == CHOOSE k \in is : \A m \in is : k <= m
            IN <<Sub(layout, 1, i - 1), stdAt(i)[1], From(layout, i + stdAt(i)[2])>>

\* getnum of package time: a number of one or two digits (of two when
\* fixed), <<ok, number, rest>>.
getnum(s, fixed) ==
    IF ~IsDigit(Ch(s, 1)) THEN <<FALSE, 0, s>>
    ELSE IF ~IsDigit(Ch(s, 2))
         THEN IF fixed THEN <<FALSE, 0, s>> ELSE <<TRUE, DigitVal(Ch(s, 1)), Tail(s)>>
    ELSE <<TRUE, DigitVal(Ch(s, 1)) * 10 + DigitVal(Ch(s, 2)), From(s, 3)>>

isLeap(y) == y % 4 = 0 /\ (y % 100 # 0 \/ y % 400 = 0)

daysIn(m, y) ==
    IF m = 2 THEN (IF isLeap(y) THEN 29 ELSE 28)
    ELSE IF m \in {4, 6, 9, 11} THEN 30
    ELSE 31

\* time.Parse for such layouts: each literal prefix of the layout must be
\* the prefix of the value, each element reads its number, no text may be
\* left over, and the day must exist in the month: [ok, y, m, d].  acc holds
\* the fields read so far; a field not in the layout has its default.
RECURSIVE ParseFrom(_, _, _)
ParseFrom(layout, value, acc) ==
    LET chunk  == NextStdChunk(layout)
        prefix == chunk[1]
        std    == chunk[2]
        rest   == From(value, Len(prefix) + 1)
        fail   == [ok |-> FALSE, y |-> 0, m |-> 0, d |-> 0]
        num    == getnum(rest, std \in {"stdZeroMonth", "stdZeroDay"})
    IN IF ~HasPrefix(value, prefix) THEN fail
       ELSE IF std = ""
            THEN IF rest # "" THEN fail
                 ELSE IF acc.d < 1 \/ acc.d > daysIn(acc.m, acc.y) THEN fail
                 ELSE [ok |-> TRUE, y |-> acc.y, m |-> acc.m, d |-> acc.d]
       ELSE IF std = "stdLongYear"
            THEN IF Len(rest) < 4 \/ \E i \in 1..4 : ~IsDigit(Ch(rest, i)) THEN fail
                 ELSE ParseFrom(chunk[3], From(rest, 5),
                                [acc EXCEPT !.y = Atoi(Sub(rest, 1, 4))])
       ELSE IF ~num[1] THEN fail
       ELSE IF std \in {"stdZeroMonth", "stdNumMonth"}
            THEN IF num[2] < 1 \/ num[2] > 12 THEN fail
                 ELSE ParseFrom(chunk[3], num[3], [acc EXCEPT !.m = num[2]])
       ELSE ParseFrom(chunk[3], num[3], [acc EXCEPT !.d = num[2]])

timeParse(layout, value) == ParseFrom(layout, value, [y |-> 0, m |-> 1, d |-> 1])

Weekdays == {"Mo", "Di", "Mi", "Do", "Fr", "Sa", "So"}

\* A character \b counts as part of a word.
IsWordChar(c) == IsAlnum(c) \/ c = "_"

\* The date (group 2) of the match of
\*   \b(Mo|Di|Mi|Do|Fr|Sa|So),\s*(\d{2}\.\d{2}\.\d{4})\b
\* that starts at position i of text, "" when there is none.
DayMatchAt(text, i) ==
    LET a == i + 3 + RunLen(text, i + 3, RegexSpace)
        digitsAt == {0, 1, 3, 4, 6, 7, 8, 9}
    IN IF /\ ~IsWordChar(Ch(text, i - 1))
          /\ Sub(text, i, i + 1) \in Weekdays
          /\ Ch(text, i + 2) = ","
          /\ \A k \in digitsAt : IsDigit(Ch(text, a + k))
          /\ Ch(text, a + 2) = "." /\ Ch(text, a + 5) = "."
          /\ ~IsWordChar(Ch(text, a + 10))
       THEN Sub(text, a, a + 9)
       ELSE ""

\* dayRe.FindStringSubmatch(text)[2]: the date of the leftmost match.
DayToken(text) ==
    LET is == {i \in 1..Len(text) : DayMatchAt(text, i) # ""}
    IN IF is = {} THEN "" ELSE DayMatchAt(text, CHOOSE k \in is : \A m \in is : k <= m)

\* What extractHeaderDates makes of one header cell: its colspan and the
\* date its text gives, ok being false without a date.
HeaderCell(cell) ==
    LET text == TrimSpace(cell.text)
        tok  == DayToken(text)
        t    == timeParse(dateFormat, tok)
    IN [cs |-> getSpan(cell.colspan),
        ok |-> tok # "" /\ t.ok,
        date |-> IF tok # "" /\ t.ok THEN [y |-> t.y, m |-> t.m, d |-> t.d] ELSE ZeroDate]

\* The second pass of extractHeaderDates over the cells from the i-th on,
\* col being the column the i-th cell starts at.
RECURSIVE AssignFrom(_, _, _, _)
AssignFrom(cells, i, col, map) ==
    IF i > Len(cells) THEN map
    ELSE AssignFrom(cells, i + 1, col + cells[i].cs,
                    IF cells[i].ok
                    THEN [c \in col..(col + cells[i].cs - 1) |-> cells[i].date] @@ map
                    ELSE map)

RECURSIVE SumSpans(_)
SumSpans(cells) == IF cells = <<>> THEN 0 ELSE Head(cells).cs + SumSpans(Tail(cells))

\* extractHeaderDates from the cells' colspans and dates on:
\* [dateByCol, total].
AssignColumns(cells) ==
    IF Len(cells) = 0 THEN [dateByCol |-> <<>>, total |-> 0]
    ELSE [dateByCol |-> AssignFrom(cells, 1, 0, <<>>), total |-> SumSpans(cells)]

extractHeaderDates(row) == AssignColumns([i \in 1..Len(row) |-> HeaderCell(row[i])])

----------------------------------------------------------------------------
(* Span Grid Resolver: parseWeekTable                                      *)

\* hasClass: the class attribute holds the class as one of its words.
hasClass(classAttr, class) == Contains(" " \o classAttr \o " ", " " \o class \o " ")

\* make([]int, totalCols) that keeps what the array of the table before held.
newOccupancy_Stale(total) ==
    [c \in 0..(total - 1) |-> IF c \in DOMAIN occ THEN occ[c] ELSE 0]

\* occ := make([]int, totalCols)
newOccupancy(total) == [c \in 0..(total - 1) |-> 0]

\* The occupancy array after the decrement at the start of a row.
decrementOcc(o) == [c \in DOMAIN o |-> IF o[c] > 0 THEN o[c] - 1 ELSE o[c]]

\* The column the cursor rests on: the first column from cursor on that is
\* not reserved, or total when there is none.
skipOccupied(o, cursor, total) ==
    CHOOSE k \in cursor..Max(cursor, total) :
        /\ k >= total \/ o[k] = 0
        /\ \A j \in cursor..(k - 1) : j < total /\ o[j] > 0

\* The end column without the clamp to the number of columns.
endColumn_Unclamped(startCol, cs, total) == startCol + cs

\* The end column of a cell that starts at startCol.
endColumn(startCol, cs, total) == Min(startCol + cs, total)

\* The occupancy array after a cell of rowspan rs was placed on the columns
\* startCol .. endCol - 1.
markOccupied(o, startCol, endCol, rs) ==
    IF rs > 1
    THEN [c \in DOMAIN o |-> IF c >= startCol /\ c < endCol THEN rs - 1 ELSE o[c]]
    ELSE o

\* The dates of the columns: the days of a week of December 2025.
DayDate(i) == [y |-> 2025, m |-> 12, d |-> 7 + i]
Dates == {DayDate(1), DayDate(2)}

\* The course whose page is parsed.
CourseName == "DBWINFO-A04"

----------------------------------------------------------------------------
(* Series Key: normalizeCourseName, extractClassKey                        *)

\* U+2013, the en dash of the link texts.
EnDash == "^"

\* U+2011, the non-breaking hyphen.
NonBreakingHyphen == "="

\* The dashes normalizeCourseName replaces by a hyphen.
DashVariants == {EnDash}

RECURSIVE ReplaceDashes(_)
ReplaceDashes(s) ==
    IF s = "" THEN ""
    ELSE (IF Head(s) \in DashVariants THEN "-" ELSE Head(s)) \o ReplaceDashes(Tail(s))

normalizeCourseName(s) == ReplaceDashes(TrimSpace(s))

\* regexp -{2,} replaced by "-": every run of hyphens becomes one hyphen.
RECURSIVE CollapseHyphens(_)
CollapseHyphens(s) ==
    IF s = "" THEN ""
    ELSE IF Head(s) = "-" /\ Ch(s, 2) = "-" THEN CollapseHyphens(Tail(s))
    ELSE Head(s) \o CollapseHyphens(Tail(s))

\* The name as extractClassKey matches it.
KeyText(courseName) ==
    CollapseHyphens(
        ReplaceAll(ReplaceAll(ReplaceAll(normalizeCourseName(courseName), "_", "-"),
                              " ", "-"), ".", "-"))

Uppers == {Ch(UpperLetters, i) : i \in 1..26}

\* \b(DB[A-Z]+) at position i of s: the length of the match of the group, 0
\* when there is none.  The group takes the whole run of capitals, a shorter
\* one being followed by a capital.
ProgramAt(s, i) ==
    LET n == RunLen(s, i + 2, Uppers)
    IN IF ~IsWordChar(Ch(s, i - 1)) /\ HasPrefixAt(s, "DB", i) /\ n >= 1
       THEN n + 2 ELSE 0

\* reLetter = \b(DB[A-Z]+)-([A-Z]\d{2,3})\b at position i: <<found, m[1], m[2]>>.
LetterAt(s, i) ==
    LET p == ProgramAt(s, i)
        d == RunLen(s, i + p + 2, Digits)
    IN IF /\ p > 0 /\ Ch(s, i + p) = "-" /\ Ch(s, i + p + 1) \in Uppers
          /\ d \in {2, 3} /\ ~IsWordChar(Ch(s, i + p + 2 + d))
       THEN <<TRUE, Sub(s, i, i + p - 1), Sub(s, i + p + 1, i + p + 1 + d)>>
       ELSE <<FALSE, "", "">>

\* reNum = \b(DB[A-Z]+)-(\d{2})\b at position i: <<found, m[1], m[2]>>.
NumAt(s, i) ==
    LET p == ProgramAt(s, i)
        d == RunLen(s, i + p + 1, Digits)
    IN IF /\ p > 0 /\ Ch(s, i + p) = "-" /\ d = 2
          /\ ~IsWordChar(Ch(s, i + p + 3))
       THEN <<TRUE, Sub(s, i, i + p - 1), Sub(s, i + p + 1, i + p + 2)>>
       ELSE <<FALSE, "", "">>

\* reBlock = \b(DB[A-Z]+)\b at position i: <<found, m[1], "">>.
BlockAt(s, i) ==
    LET p == ProgramAt(s, i)
    IN IF p > 0 /\ ~IsWordChar(Ch(s, i + p))
       THEN <<TRUE, Sub(s, i, i + p - 1), "">>
       ELSE <<FALSE, "", "">>

\* FindStringSubmatch: the match at the leftmost position, <<FALSE, "", "">>
\* without one.
Leftmost(At(_, _), s) ==
    LET is == {i \in 1..Len(s) : At(s, i)[1]}
    IN IF is = {} THEN <<FALSE, "", "">>
       ELSE At(s, CHOOSE i \in is : \A j \in is : i <= j)

\* "Other", the key of a name without program code.
OtherKey == "Other"

\* extractClassKey with the numeric cohort tried before the letter class.
extractClassKey_NumericFirst(courseName) ==
    LET s == KeyText(courseName)
    IN IF Leftmost(NumAt, s)[1]
       THEN Leftmost(NumAt, s)[2] \o "-" \o Leftmost(NumAt, s)[3]
       ELSE IF Leftmost(LetterAt, s)[1]
       THEN Leftmost(LetterAt, s)[2] \o "-" \o Leftmost(LetterAt, s)[3]
       ELSE IF Leftmost(BlockAt, s)[1] THEN Leftmost(BlockAt, s)[2]
       ELSE OtherKey

extractClassKey(courseName) ==
    LET s == KeyText(courseName)
    IN IF Leftmost(LetterAt, s)[1]
       THEN Leftmost(LetterAt, s)[2] \o "-" \o Leftmost(LetterAt, s)[3]
       ELSE IF Leftmost(NumAt, s)[1]
       THEN Leftmost(NumAt, s)[2] \o "-" \o Leftmost(NumAt, s)[3]
       ELSE IF Leftmost(BlockAt, s)[1] THEN Leftmost(BlockAt, s)[2]
       ELSE OtherKey


(***************************************************************************)
(* Duplicate removal: dedupeEvents                                         *)
(***************************************************************************)

\* The days from 1970-01-01 to the day d of month m of year y.
DaysFromCivil(y, m, d) ==
    LET yy  == IF m <= 2 THEN y - 1 ELSE y
        era == yy \div 400
        yoe == yy - era * 400
        mp  == (m + 9) % 12
        doy == (153 * mp + 2) \div 5 + d - 1
        doe == yoe * 365 + yoe \div 4 - yoe \div 100 + doy
    IN  era * 146097 + doe - 719468

\* Seconds east of UTC of the wall-clock reading t in its zone: Central
\* European Time, with summer time in the months that are wholly inside it
\* (the days of March and October, which have the changeovers, are not among
\* the dates of the model).
UTCOffset(t) ==
    IF t.loc = "UTC" THEN 0 ELSE IF t.m \in 4..9 THEN 7200 ELSE 3600

\* t.Unix().
Unix(t) ==
    DaysFromCivil(t.y, t.m, t.d) * 86400 + t.h * 3600 + t.min * 60 - UTCOffset(t)

\* fmt.Sprintf("%d|%d|%s|%s|%s", ...): what dedupeEvents knows an event by.
eventKey(e) ==
    ToString(Unix(e.Start)) \o "|" \o ToString(Unix(e.End)) \o "|" \o
    e.Summary \o "|" \o e.Location \o "|" \o e.Description

\* The loop of dedupeEvents from the i-th event on.
RECURSIVE dedupeFrom(_, _, _, _)
dedupeFrom(in, i, seen, out) ==
    IF i > Len(in) THEN out
    ELSE LET key == eventKey(in[i])
         IN  IF key \in seen THEN dedupeFrom(in, i + 1, seen, out)
             ELSE dedupeFrom(in, i + 1, seen \cup {key}, Append(out, in[i]))

dedupeEvents(in) == dedupeFrom(in, 1, {}, <<>>)


(***************************************************************************)
(* File names: generateICS                                                 *)
(***************************************************************************)

\* The characters the regexp [^a-zA-Z0-9_-] of generateICS leaves alone.
IsFileChar(c) == IsWordChar(c) \/ c = "-"

\* regexp [^a-zA-Z0-9_-]+ replaced by "_": every run of other characters
\* becomes one underscore.
RECURSIVE sanitizedName(_)
sanitizedName(s) ==
    IF s = "" THEN ""
    ELSE IF IsFileChar(Head(s)) THEN Head(s) \o sanitizedName(Tail(s))
    ELSE IF Len(s) >= 2 /\ ~IsFileChar(Ch(s, 2)) THEN sanitizedName(Tail(s))
    ELSE "_" \o sanitizedName(Tail(s))

\* The name of the file in outputDir: fmt.Sprintf("%s/%s.ics", ...).
icsFile(courseName) == sanitizedName(courseName) \o ".ics"


(***************************************************************************)
(* Site generator: sort.Strings, splitAggregated                           *)
(***************************************************************************)

\* The characters of file names in the order of their bytes.
ByteOrder == "-.0123456789" \o UpperLetters \o "_" \o LowerLetters

Ord(c) == CHOOSE i \in 1..Len(ByteOrder) : Ch(ByteOrder, i) = c

\* a < b as Go compares strings.
RECURSIVE StrLess(_, _)
StrLess(a, b) ==
    IF b = "" THEN FALSE
    ELSE IF a = "" THEN TRUE
    ELSE IF Head(a) = Head(b) THEN StrLess(Tail(a), Tail(b))
    ELSE Ord(Head(a)) < Ord(Head(b))

\* sort.Strings of the names of a directory.
RECURSIVE SortStrings(_)
SortStrings(ns) ==
    IF ns = {} THEN <<>>
    ELSE LET least == CHOOSE n \in ns : \A o \in ns \ {n} : StrLess(n, o)
         IN  <<least>> \o SortStrings(ns \ {least})

\* ^DB[A-Z]+ at the start of name: the length of the match, 0 without one.
ProgramPrefix(name) ==
    LET n == RunLen(name, 3, Uppers)
    IN IF HasPrefix(name, "DB") /\ n >= 1 THEN n + 2 ELSE 0

\* aggClassRe = ^DB[A-Z]+-(?:[A-Z]\d{2,3}|\d{2})\.ics$
MatchesAggClass(name) ==
    LET p    == ProgramPrefix(name)
        rest == Sub(name, p + 2, Len(name))
        d    == RunLen(rest, 1, Digits)
        ld   == RunLen(rest, 2, Digits)
    IN /\ p > 0
       /\ Ch(name, p + 1) = "-"
       /\ \/ Ch(rest, 1) \in Uppers /\ ld \in {2, 3} /\ Sub(rest, ld + 2, Len(rest)) = ".ics"
          \/ d = 2 /\ Sub(rest, 3, Len(rest)) = ".ics"

\* aggBlockRe = ^DB[A-Z]+\.ics$
MatchesAggBlock(name) ==
    LET p == ProgramPrefix(name)
    IN p > 0 /\ Sub(name, p + 1, Len(name)) = ".ics"

\* splitAggregated(names): <<aggregated, individual>>.
splitAggregated(names) ==
    <<SelectSeq(names, LAMBDA n : MatchesAggClass(n) \/ MatchesAggBlock(n)),
      SelectSeq(names, LAMBDA n : ~(MatchesAggClass(n) \/ MatchesAggBlock(n)))>>

----------------------------------------------------------------------------
(* SpecLines: splitCellLines applied to a piece of cell markup, and then   *)
(* to its own output joined by line breaks.                                *)

\* The pieces a cell's markup is put together from: break and inline tags,
\* entities (also an entity name standing alone, as left behind by "&amp;"),
\* text, white space, U+00A0 and the characters of footnote markers.
Tokens ==
    {"<br/>", "<b>", "&amp;", "&lt;", "&gt;", "lt;", "&nbsp;", "x", " ", NBSP, "[", "]", "1",
     "[1]"}

\* The number of pieces of a markup.
MaxTok == 4

\* The cell-parsing variables of a specification that does not parse a cell.
CellIdle == date = ZeroDate /\ ev = [ok |-> FALSE, event |-> NoEvent]

\* The header variables of a specification that parses no header.
HeaderIdle == headerRow = <<>> /\ dateByCol = <<>> /\ totalCols = 0

\* The cell seen last, before any cell was seen.
NoCell == [start |-> 0, placed |-> FALSE, v |-> FALSE, html |-> "", emitted |-> FALSE]

\* The table variables of a specification that parses no table.
GridIdle ==
    /\ noRows = FALSE /\ hdr = <<>> /\ occ = <<>> /\ colCursor = 0 /\ events = <<>>
    /\ rowNo = 0 /\ cellNo = 0 /\ active = {} /\ last = NoCell

\* The document variables of a specification that parses one table or none.
DocIdle == tableNo = 0 /\ all = <<>> /\ tables = <<>> /\ prevOcc = <<>>

\* The pipeline variables of a specification that runs no cycle.
CycleIdle ==
    /\ links = <<>> /\ linkNo = 0 /\ classEvents = <<>> /\ todo = {}
    /\ files = {} /\ site = {} /\ err = ""
    /\ aggregated = <<>> /\ individual = <<>>

\* The variables of dedupeEvents in a specification that does not call it.
DedupeIdle == evsIn = <<>> /\ evsOut = <<>> /\ evsAgain = <<>>

\* The variables of extractClassKey in a specification that does not call it.
KeyIdle ==
    course = "" /\ variant = "" /\ classKey = "" /\ variantKey = "" /\ reKey = ""

RestIdle == DocIdle /\ CycleIdle /\ DedupeIdle /\ KeyIdle

RECURSIVE Concat(_)
Concat(ts) == IF ts = <<>> THEN "" ELSE Head(ts) \o Concat(Tail(ts))

Markups == {Concat(ts) : ts \in UNION {[1..n -> Tokens] : n \in 0..MaxTok}}

InitLines ==
    /\ pc = "raw"
    /\ rawHTML \in Markups
    /\ lines = <<>>
    /\ relines = <<>>
    /\ CellIdle
    /\ HeaderIdle
    /\ GridIdle
    /\ RestIdle

\* lines := splitCellLines(rawHTML)
Normalize ==
    /\ pc = "raw"
    /\ lines' = splitCellLines(rawHTML)
    /\ pc' = "normalized"
    /\ UNCHANGED <<rawHTML, relines, cellVars, headerVars, gridVars, restVars>>

\* The normalized line list, joined by line breaks, normalized again.
Renormalize ==
    /\ pc = "normalized"
    /\ relines' = splitCellLines(Join(lines, "\n"))
    /\ pc' = "renormalized"
    /\ UNCHANGED <<rawHTML, lines, cellVars, headerVars, gridVars, restVars>>

NextLines == Normalize \/ Renormalize

SpecLines == InitLines /\ [][NextLines]_vars

\* C10: normalizing an already-normalized line list returns the same list
\* unchanged, for every input markup.
C10_Idempotent == pc = "renormalized" => relines = lines

\* The line ends in a footnote marker [digits].
EndsInFootnote(l) ==
    \E i \in 1..Len(l) :
        /\ Ch(l, i) = "[" /\ Ch(l, Len(l)) = "]"
        /\ Len(l) - i - 1 >= 1
        /\ \A k \in (i + 1)..(Len(l) - 1) : IsDigit(Ch(l, k))

\* C11: every line splitCellLines returns is non-empty, has no white space
\* (a non-breaking space included) at its start or end, and does not end in
\* a footnote marker [digits]; empty lines are dropped.
C11_CleanLines ==
    pc = "normalized" =>
        \A i \in 1..Len(lines) :
            /\ lines[i] # ""
            /\ TrimSpace(lines[i]) = lines[i]
            /\ ~EndsInFootnote(lines[i])


----------------------------------------------------------------------------
(* SpecCell: parseEventCell applied to the markup of one event cell.       *)

\* A line with a second time range after its first.
TwoRanges == "08:00-09:30 / 10:00-11:30"

\* What the lines of a cell are drawn from, by position.
TimeChunks ==
    {"09:00-10:30", "10:30-09:00", "09:00-09:00", "9:15 - 10:00", "25:00-10:00",
     "09:60-10:00", "09:00-24:00", "123:45-10:00", "Pause", TwoRanges}
TypeChunks == {"Vorlesung", "mathe", "Reserviert", "RESERVIERT", "NK: Aula"}
ModuleChunks == {"Mathe 1", "EXT: Werk", ""}
LocationChunks == {"Raum 204", "[1]" \o NBSP \o "[2]"}
ExtraChunks == {"NK: B2", "Hinweis [3]"}

\* The number of lines written into a cell.
MaxLines == 5

ChunksAt(i) ==
    IF i = 1 THEN TimeChunks
    ELSE IF i = 2 THEN TypeChunks
    ELSE IF i = 3 THEN ModuleChunks
    ELSE IF i = 4 THEN LocationChunks
    ELSE ExtraChunks

\* The line lists of n lines.
RECURSIVE CellsOfLen(_)
CellsOfLen(n) ==
    IF n = 0 THEN {<<>>}
    ELSE {Append(c, x) : c \in CellsOfLen(n - 1), x \in ChunksAt(n)}

\* The markup of a cell: its lines separated by break tags.
CellMarkups == {Join(c, "<br/>") : c \in UNION {CellsOfLen(n) : n \in 0..MaxLines}}

InitCell ==
    /\ pc = "cell"
    /\ rawHTML \in CellMarkups
    /\ date \in Dates
    /\ lines = <<>>
    /\ relines = <<>>
    /\ ev = [ok |-> FALSE, event |-> NoEvent]
    /\ HeaderIdle
    /\ GridIdle
    /\ RestIdle

\* ev, ok := parseEventCell(cell, date, courseName, loc)
ParseEventCell ==
    /\ pc = "cell"
    /\ lines' = splitCellLines(rawHTML)
    /\ ev' = parseEventCell(rawHTML, date, CourseName)
    /\ pc' = "parsed"
    /\ UNCHANGED <<rawHTML, relines, date, headerVars, gridVars, restVars>>

NextCell == ParseEventCell

SpecCell == InitCell /\ [][NextCell]_vars

\* The minutes since midnight of a time stamp; the stamps of one event share
\* their day, so this orders them.
MinuteOfDay(t) == t.h * 60 + t.min

Produced == pc = "parsed" /\ ev.ok

\* The line of the given role, "" when the cell has no such line
\* (0 time range, 1 type, 2 module, 3 location).
LineOf(role) == IF Len(lines) > role THEN lines[role + 1] ELSE ""

\* C5: every event parseEventCell returns has Start < End.
C5_StartBeforeEnd ==
    Produced => MinuteOfDay(ev.event.Start) < MinuteOfDay(ev.event.End)


\* The two halves of the time range found in the joined lines of the cell.
FoundRange == extractTimeRange(Join(lines, " "))

\* The hour and the minute a clock text H:MM or HH:MM spells.
HourOf(t) == Atoi(Sub(t, 1, IndexOf(t, ":") - 1))
MinuteOf(t) == Atoi(From(t, IndexOf(t, ":") + 1))

ValidClock(t) == HourOf(t) <= 23 /\ MinuteOf(t) <= 59

C7_ReservedDropped ==
    pc = "parsed" /\ Len(lines) >= 2 /\ ToLower(TrimSpace(lines[2])) = "reserviert"
        => ~ev.ok

\* C7 happens: the lines "09:00-10:30", "Reserviert" were parsed, the time
\* range is valid, and there is no event.
C7_Witness ==
    /\ pc = "parsed"
    /\ lines = <<"09:00-10:30", "Reserviert">>
    /\ ValidClock(FoundRange[1]) /\ ValidClock(FoundRange[2])
    /\ ~ev.ok

\* The type line occurs in the module line, case ignored.
TypeInModule == Contains(ToLower(LineOf(2)), ToLower(LineOf(1)))

\* C8: the summary is "<module> (<type>)" when both lines are there and the
\* type is no case-insensitive substring of the module; else the module
\* line; else the type line; else "ASW event".  The lines "09:00-10:30",
\* "Vorlesung", "Mathe 1", "Raum 204" give "Mathe 1 (Vorlesung)" in
\* "Raum 204".
C8_Summary ==
    /\ Produced =>
        ev.event.Summary =
            IF LineOf(2) # "" /\ LineOf(1) # "" /\ ~TypeInModule
            THEN LineOf(2) \o " (" \o LineOf(1) \o ")"
            ELSE IF LineOf(2) # "" THEN LineOf(2)
            ELSE IF LineOf(1) # "" THEN LineOf(1)
            ELSE "ASW event"
    /\ pc = "parsed" /\ lines = <<"09:00-10:30", "Vorlesung", "Mathe 1", "Raum 204">> =>
        /\ ev.ok
        /\ ev.event.Summary = "Mathe 1 (Vorlesung)"
        /\ ev.event.Location = "Raum 204"

\* C8 happens: the example cell was parsed into an event.
C8_Witness ==
    /\ Produced
    /\ lines = <<"09:00-10:30", "Vorlesung", "Mathe 1", "Raum 204">>
    /\ ev.event.Summary = "Mathe 1 (Vorlesung)"

ExternalPrefix(l) == HasPrefix(l, "NK:") \/ HasPrefix(l, "EXT:")

\* The lines after the location line.
Extras == IF Len(lines) > 4 THEN Sub(lines, 5, Len(lines)) ELSE <<>>

\* C9: the location is the location line when that is not empty; else the
\* first of type line, module line and extras, in that order, that begins
\* with "NK:" or "EXT:"; else it is empty.
C9_Location ==
    Produced =>
        ev.event.Location =
            IF LineOf(3) # "" THEN LineOf(3)
            ELSE IF ExternalPrefix(LineOf(1)) THEN LineOf(1)
            ELSE IF ExternalPrefix(LineOf(2)) THEN LineOf(2)
            ELSE IF \E i \in 1..Len(Extras) : ExternalPrefix(Extras[i])
                 THEN Extras[CHOOSE i \in 1..Len(Extras) :
                                 /\ ExternalPrefix(Extras[i])
                                 /\ \A j \in 1..(i - 1) : ~ExternalPrefix(Extras[j])]
            ELSE ""

\* C9 happens: an event without location line takes its location from the
\* module line, the type line not being an external location.
C9_Witness ==
    /\ Produced
    /\ LineOf(3) = ""
    /\ ~ExternalPrefix(LineOf(1))
    /\ ExternalPrefix(LineOf(2))
    /\ ev.event.Location = LineOf(2)


----------------------------------------------------------------------------
(* SpecHeader: extractHeaderDates applied to a header row.                 *)

\* The texts of header cells: weekday and date as the schedule pages write
\* them, without blank, with a date that does not exist, with a weekday
\* written out, and a cell without date.
HeaderTexts ==
    {"Mo, 08.12.2025", "Di, 09.12.2025", "Fr,12.12.2025", "Mo, 31.02.2025",
     "Montag, 08.12.2025", "KW 50"}

\* The colspan attributes of header cells.
HeaderSpans == {NoAttr, Attr("2"), Attr("0"), Attr("x")}

\* The number of cells of a header row.
MaxHeaderCells == 2

HeaderRows ==
    UNION {[1..n -> [colspan : HeaderSpans, text : HeaderTexts]] : n \in 0..MaxHeaderCells}

LinesIdle == rawHTML = "" /\ lines = <<>> /\ relines = <<>>

InitHeader ==
    /\ pc = "header"
    /\ headerRow \in HeaderRows
    /\ dateByCol = <<>>
    /\ totalCols = 0
    /\ LinesIdle
    /\ CellIdle
    /\ GridIdle
    /\ RestIdle

\* dateByCol, totalCols := extractHeaderDates(headerRow)
ExtractHeaderDates ==
    /\ pc = "header"
    /\ dateByCol' = extractHeaderDates(headerRow).dateByCol
    /\ totalCols' = extractHeaderDates(headerRow).total
    /\ pc' = "mapped"
    /\ UNCHANGED <<headerRow, linesVars, cellVars, gridVars, restVars>>

NextHeader == ExtractHeaderDates

SpecHeader == InitHeader /\ [][NextHeader]_vars

\* The date a token DD.MM.YYYY names.
TokenDate(tok) ==
    [y |-> Atoi(Sub(tok, 7, 10)), m |-> Atoi(Sub(tok, 4, 5)), d |-> Atoi(Sub(tok, 1, 2))]

\* The date exists in the calendar.
CalendarDate(dt) == dt.m \in 1..12 /\ dt.d >= 1 /\ dt.d <= daysIn(dt.m, dt.y)

\* The colspan of the i-th header cell, and the logical columns it spans.
HeaderSpan(i) == getSpan(headerRow[i].colspan)

RECURSIVE HeaderStart(_)
HeaderStart(i) == IF i <= 1 THEN 0 ELSE HeaderStart(i - 1) + HeaderSpan(i - 1)

HeaderColumns(i) == HeaderStart(i)..(HeaderStart(i) + HeaderSpan(i) - 1)

\* C3: every logical column spanned by a header cell whose text holds a
\* weekday abbreviation and a date DD.MM.YYYY is mapped to that date; so
\* "Mo, 08.12.2025" with colspan 2 maps both its columns to 2025-12-08.
C3_HeaderDates ==
    pc = "mapped" =>
        \A i \in 1..Len(headerRow) :
            LET tok == DayToken(TrimSpace(headerRow[i].text))
            IN tok # "" /\ CalendarDate(TokenDate(tok)) =>
                \A c \in HeaderColumns(i) :
                    c \in DOMAIN dateByCol /\ dateByCol[c] = TokenDate(tok)


----------------------------------------------------------------------------
(* SpecGrid: parseWeekTable on one table.  The header row is given by what *)
(* extractHeaderDates makes of each of its cells (colspan, date or none);  *)
(* the rows and their cells come one by one.                               *)

\* The body rows of a table, and the cells of a table.
MaxRows == 2
MaxCells == 3

\* What extractHeaderDates makes of a header cell: a colspan, and a date or
\* none.  The dated cells of a header carry the dates of successive days.
Undated(cs) == [cs |-> cs, ok |-> FALSE, date |-> ZeroDate]
Dated(cs, i) == [cs |-> cs, ok |-> TRUE, date |-> DayDate(i)]

\* The header rows: without cell, without date, of one day, of two days, and
\* with an undated cell before and after a day.
GridHeaders ==
    {<<>>, <<Undated(1)>>, <<Dated(1, 1)>>, <<Dated(2, 1)>>,
     <<Undated(1), Dated(1, 2)>>, <<Undated(2), Dated(1, 2)>>,
     <<Dated(1, 1), Undated(1)>>, <<Dated(2, 1), Dated(1, 2)>>,
     <<Dated(1, 1), Dated(2, 2)>>}

\* The colspan and the rowspan attributes of body cells.
ColspanAttrs == {NoAttr, Attr("2")}
RowspanAttrs == {NoAttr, Attr("2"), Attr("3")}


\* The session of the schedule pages.
Session == "09:00-10:30<br/>Vorlesung<br/>Mathe 1<br/>Raum 204"

\* The markup of body cells: a session, and a cell without time range.
GridMarkups == {Session, "Pause"}

\* The body cells by class attribute and markup: event cells, and a cell of
\* another class.
GridCells ==
    [class : {"v"}, html : GridMarkups] \cup {[class |-> "t", html |-> "Pause"]}

\* parseEventCell of each markup on each date.
GridEvents ==
    {<<html, d, parseEventCell(html, d, CourseName)>> : html \in GridMarkups, d \in Dates}

\* The call of parseEventCell in parseWeekTable.
parsedCell(html, d) == (CHOOSE t \in GridEvents : t[1] = html /\ t[2] = d)[3]

\* The event of a cell that is parsed whether or not its start column has a
\* date, an undated column giving the zero time.
cellEvent_ZeroDate(isEvent, startCol, byCol, html) ==
    IF isEvent
    THEN IF startCol \in DOMAIN byCol /\ byCol[startCol] # ZeroDate
         THEN parsedCell(html, byCol[startCol])
         ELSE parseEventCell(html, ZeroDate, CourseName)
    ELSE [ok |-> FALSE, event |-> NoEvent]

\* The event of a cell that starts at startCol: [ok, event].  Only a cell of
\* class v whose start column has a date other than the zero time is parsed.
cellEvent(isEvent, startCol, byCol, html) ==
    IF isEvent /\ startCol \in DOMAIN byCol /\ byCol[startCol] # ZeroDate
    THEN parsedCell(html, byCol[startCol])
    ELSE [ok |-> FALSE, event |-> NoEvent]

\* The tables: one without any row, and one for each header row.
Tables(headers) ==
    {[noRows |-> TRUE, hdr |-> <<>>]} \cup {[noRows |-> FALSE, hdr |-> h] : h \in headers}

InitGrid ==
    /\ pc = "table"
    /\ \E t \in Tables(GridHeaders) : noRows = t.noRows /\ hdr = t.hdr
    /\ occ = <<>> /\ colCursor = 0 /\ events = <<>>
    /\ rowNo = 0 /\ cellNo = 0 /\ active = {} /\ last = NoCell
    /\ LinesIdle
    /\ CellIdle
    /\ HeaderIdle
    /\ RestIdle

\* parseWeekTable up to the first body row: the return of a table without
\* rows, the header dates, the return of a header without columns or dates,
\* the occupancy array.
ParseHeader ==
    /\ pc = "table"
    /\ LET h == AssignColumns(hdr)
       IN IF noRows
          THEN pc' = "returned" /\ UNCHANGED <<dateByCol, totalCols, occ>>
          ELSE /\ dateByCol' = h.dateByCol
               /\ totalCols' = h.total
               /\ IF h.total = 0 \/ DOMAIN h.dateByCol = {}
                  THEN pc' = "returned" /\ occ' = occ
                  ELSE pc' = "rows" /\ occ' = newOccupancy(h.total)
    /\ UNCHANGED <<headerRow, noRows, hdr, colCursor, events, rowNo, cellNo, active, last,
                   linesVars, cellVars, restVars>>

\* The start of the callback of a body row.
BeginRow ==
    /\ pc = "rows"
    /\ rowNo < MaxRows
    /\ occ' = decrementOcc(occ)
    /\ colCursor' = 0
    /\ rowNo' = rowNo + 1
    /\ active' = {a \in active : a.row + a.rs - 1 >= rowNo + 1}
    /\ UNCHANGED <<pc, noRows, hdr, events, cellNo, last, headerVars, linesVars, cellVars,
                   restVars>>

\* The callback of a td that places a cell only when it gives an event.
PlaceCell_EventsOnly(colspan, rowspan, classAttr, html) ==
    /\ pc = "rows"
    /\ rowNo >= 1
    /\ cellNo < MaxCells
    /\ cellNo' = cellNo + 1
    /\ LET cs       == getSpan(colspan)
           rs       == getSpan(rowspan)
           cursor   == skipOccupied(occ, colCursor, totalCols)
           startCol == cursor
           endCol   == endColumn(startCol, cs, totalCols)
           e        == cellEvent(hasClass(classAttr, "v"), startCol, dateByCol, html)
       IN IF cursor >= totalCols \/ ~e.ok
          THEN /\ colCursor' = cursor
               /\ last' = [start |-> cursor, placed |-> FALSE,
                           v |-> hasClass(classAttr, "v"), html |-> html,
                           emitted |-> FALSE]
               /\ UNCHANGED <<occ, events, active>>
          ELSE /\ occ' = markOccupied(occ, startCol, endCol, rs)
               /\ events' = Append(events, e.event)
               /\ colCursor' = endCol
               /\ active' = active \cup
                      {[row |-> rowNo, start |-> startCol, end |-> endCol, rs |-> rs]}
               /\ last' = [start |-> startCol, placed |-> TRUE,
                           v |-> hasClass(classAttr, "v"), html |-> html,
                           emitted |-> TRUE]
    /\ UNCHANGED <<pc, noRows, hdr, rowNo, headerVars, linesVars, cellVars, restVars>>

\* The callback of one td of the current row.
PlaceCell(colspan, rowspan, classAttr, html) ==
    /\ pc = "rows"
    /\ rowNo >= 1
    /\ cellNo < MaxCells
    /\ cellNo' = cellNo + 1
    /\ LET cs       == getSpan(colspan)
           rs       == getSpan(rowspan)
           cursor   == skipOccupied(occ, colCursor, totalCols)
           startCol == cursor
           endCol   == endColumn(startCol, cs, totalCols)
           e        == cellEvent(hasClass(classAttr, "v"), startCol, dateByCol, html)
       IN IF cursor >= totalCols
          THEN /\ colCursor' = cursor
               /\ last' = [start |-> cursor, placed |-> FALSE,
                           v |-> hasClass(classAttr, "v"), html |-> html,
                           emitted |-> FALSE]
               /\ UNCHANGED <<occ, events, active>>
          ELSE /\ occ' = markOccupied(occ, startCol, endCol, rs)
               /\ events' = IF e.ok THEN Append(events, e.event) ELSE events
               /\ colCursor' = endCol
               /\ active' = active \cup
                      {[row |-> rowNo, start |-> startCol, end |-> endCol, rs |-> rs]}
               /\ last' = [start |-> startCol, placed |-> TRUE,
                           v |-> hasClass(classAttr, "v"), html |-> html,
                           emitted |-> e.ok]
    /\ UNCHANGED <<pc, noRows, hdr, rowNo, headerVars, linesVars, cellVars, restVars>>

\* The table has no further row: parseWeekTable returns events.
ReturnEvents ==
    /\ pc = "rows"
    /\ pc' = "returned"
    /\ UNCHANGED <<gridVars, headerVars, linesVars, cellVars, restVars>>

NextGrid ==
    \/ ParseHeader
    \/ BeginRow
    \/ \E colspan \in ColspanAttrs, rowspan \in RowspanAttrs,
          cell \in GridCells : PlaceCell(colspan, rowspan, cell.class, cell.html)
    \/ ReturnEvents

SpecGrid == InitGrid /\ [][NextGrid]_vars

\* The logical columns a placed cell claims.
Claimed(a) == a.start..(a.end - 1)

\* The cell a of an earlier row covers the row of the cell b by its rowspan.
Covers(a, b) == a.row < b.row /\ b.row <= a.row + a.rs - 1

RECURSIVE SpanStart(_)
SpanStart(i) == IF i <= 1 THEN 0 ELSE SpanStart(i - 1) + hdr[i - 1].cs

SpanColumns(i) == SpanStart(i)..(SpanStart(i) + hdr[i].cs - 1)

\* C4: a header cell without date maps none of its columns and still takes
\* its colspan, the later cells' dates lying on the columns after it; a cell
\* that starts on an unmapped column gives no event, and no event has the
\* zero date.
C4_UnmappedDropped ==
    /\ pc # "table" =>
          \A i \in 1..Len(hdr) : \A c \in SpanColumns(i) :
              IF hdr[i].ok
              THEN c \in DOMAIN dateByCol /\ dateByCol[c] = hdr[i].date
              ELSE c \notin DOMAIN dateByCol
    /\ last.placed /\ last.start \notin DOMAIN dateByCol => ~last.emitted
    /\ \A k \in 1..Len(events) : DayOf(events[k].Start) \in Dates

\* C4 happens: the header has a cell without date before a dated one, and a
\* session of class v that starts under the undated cell was placed and left
\* no event.
C4_Witness ==
    /\ pc = "rows"
    /\ last.placed /\ last.v /\ last.html = Session
    /\ \E i \in 1..Len(hdr) :
          /\ ~hdr[i].ok
          /\ last.start \in SpanColumns(i)
          /\ \E j \in (i + 1)..Len(hdr) :
                hdr[j].ok /\ \A c \in SpanColumns(j) : dateByCol[c] = hdr[j].date
    /\ last.start \notin DOMAIN dateByCol
    /\ events = <<>>

\* The column the cursor of the current row rests on before the next cell.
FreeColumn == skipOccupied(occ, colCursor, totalCols)

\* A step that handles one body cell.
CellStep == cellNo' = cellNo + 1

\* C15: a cell that finds the cursor at or beyond totalColumns after the
\* occupied columns were skipped is dropped: no event, the occupancy array
\* unchanged, the table still being processed; a cell that fits ends at
\* totalColumns at most, and the occupancy array has no index outside
\* [0, totalColumns).
C15_OverflowDropped ==
    /\ [](pc = "rows" =>
            /\ DOMAIN occ = 0..(totalCols - 1)
            /\ \A a \in active : 0 <= a.start /\ a.start < a.end /\ a.end <= totalCols)
    /\ [][CellStep /\ FreeColumn >= totalCols =>
            occ' = occ /\ events' = events /\ active' = active /\ pc' = "rows"]_vars

\* C15 happens: a session of class v came when every column of its row was
\* taken or reserved; it was dropped, and an earlier cell of two columns
\* ends at the last column.
C15_Witness ==
    /\ pc = "rows"
    /\ cellNo >= 1 /\ ~last.placed /\ last.v /\ last.html = Session
    /\ last.start >= totalCols
    /\ \E a \in active : a.end = totalCols /\ a.end - a.start = 1 /\ a.rs > 1

\* C19: where a cell is placed and what it reserves follows from the
\* occupancy array, the cursor and the cell's spans alone: whatever its
\* class and its markup, and whether or not it gives an event, a cell that
\* finds a free column is placed on it, moves the cursor to its end column
\* and reserves its columns for its rowspan; row and table go on.
C19_ContentIndependent ==
    [][CellStep /\ FreeColumn < totalCols =>
        /\ \E a \in active' :
              /\ a.row = rowNo /\ a.start = FreeColumn /\ a.end > a.start
              /\ colCursor' = a.end
              /\ occ' = [c \in DOMAIN occ |->
                            IF c \in Claimed(a) /\ a.rs > 1 THEN a.rs - 1 ELSE occ[c]]
        /\ rowNo' = rowNo /\ pc' = "rows"]_vars

\* C19 happens: an event cell without time range, of two rows, was placed
\* under a dated column, gave no event and reserved its column.
C19_Witness ==
    /\ pc = "rows"
    /\ last.placed /\ last.v /\ last.html = "Pause" /\ ~last.emitted
    /\ last.start \in DOMAIN dateByCol
    /\ occ[last.start] >= 1
    /\ colCursor > last.start



(***************************************************************************)
(* SpecDedupe: dedupeEvents applied to a list of events, and then to its   *)
(* own output.                                                             *)
(***************************************************************************)

\* The longest list of events.
MaxEvents == 3

\* A lecture of the course on the 8th of December from h o'clock for an hour.
Lecture(h, summary, location, description) ==
    [CourseName |-> CourseName, Summary |-> summary, Location |-> location,
     Description |-> description,
     Start |-> TimeDate(DayDate(1), h, 0), End |-> TimeDate(DayDate(1), h + 1, 0)]

\* The events of the lists: one lecture; the same an hour later, in another
\* room, and with another description; and two lectures whose summary and
\* location have the separator of the key in them.
DedupeEvents ==
    {Lecture(9, "Mathe", "R1", "Vorlesung"),
     Lecture(10, "Mathe", "R1", "Vorlesung"),
     Lecture(9, "Mathe", "R2", "Vorlesung"),
     Lecture(9, "Mathe", "R1", "Klausur"),
     Lecture(9, "Mathe|A", "R1", "Vorlesung"),
     Lecture(9, "Mathe", "A|R1", "Vorlesung")}

EventLists == UNION {[1..n -> DedupeEvents] : n \in 0..MaxEvents}

InitDedupe ==
    /\ pc = "list"
    /\ evsIn \in EventLists
    /\ evsOut = <<>> /\ evsAgain = <<>>
    /\ LinesIdle /\ CellIdle /\ HeaderIdle /\ GridIdle /\ DocIdle /\ CycleIdle /\ KeyIdle

\* out := dedupeEvents(in)
Dedupe ==
    /\ pc = "list"
    /\ evsOut' = dedupeEvents(evsIn)
    /\ pc' = "deduped"
    /\ UNCHANGED <<evsIn, evsAgain, linesVars, cellVars, headerVars, gridVars,
                   docVars, cycleVars, keyVars>>

\* again := dedupeEvents(out)
DedupeAgain ==
    /\ pc = "deduped"
    /\ evsAgain' = dedupeEvents(evsOut)
    /\ pc' = "again"
    /\ UNCHANGED <<evsIn, evsOut, linesVars, cellVars, headerVars, gridVars,
                   docVars, cycleVars, keyVars>>

NextDedupe == Dedupe \/ DedupeAgain

SpecDedupe == InitDedupe /\ [][NextDedupe]_vars

\* Two events match in start, end, summary, location and description.
SameEvent(a, b) ==
    /\ a.Start = b.Start /\ a.End = b.End /\ a.Summary = b.Summary
    /\ a.Location = b.Location /\ a.Description = b.Description

\* The positions of es whose event matches no earlier event of es.
FirstOccurrences(es) ==
    {i \in 1..Len(es) : \A k \in 1..(i - 1) : ~SameEvent(es[k], es[i])}

\* The events of es at the positions ps, in the order of es.
RECURSIVE EventsAt(_, _, _)
EventsAt(es, ps, i) ==
    IF i > Len(es) THEN <<>>
    ELSE (IF i \in ps THEN <<es[i]>> ELSE <<>>) \o EventsAt(es, ps, i + 1)

\* C13: dedupeEvents removes an event exactly when an earlier event of the
\* list matches it in start, end, summary, location and description; what
\* is kept are the first occurrences, in the order of the input.
C13_ExactDuplicates ==
    pc = "deduped" => evsOut = EventsAt(evsIn, FirstOccurrences(evsIn), 1)

\* C14: dedupeEvents of its own output returns that output, and
\* dedupeEvents of a list without duplicates returns the list.
C14_DedupeIdempotent ==
    pc = "again" =>
        /\ evsAgain = evsOut
        /\ FirstOccurrences(evsIn) = 1..Len(evsIn) => evsOut = evsIn


(***************************************************************************)
(* SpecDoc: parseScheduleDetails on a document of several tables.  Each    *)
(* table is parsed by the steps of parseWeekTable; between two calls occ,  *)
(* dateByCol and totalCols hold what the call before left in them, every   *)
(* call assigning them before it reads them.                               *)
(***************************************************************************)

\* The tables of the documents: of two days, of the first and of the second
\* day alone, and the three that cannot be mapped.
TwoDays    == [noRows |-> FALSE, hdr |-> <<Dated(1, 1), Dated(1, 2)>>]
FirstDay   == [noRows |-> FALSE, hdr |-> <<Dated(1, 1)>>]
SecondDay  == [noRows |-> FALSE, hdr |-> <<Dated(1, 2)>>]
NoRowsAtAll == [noRows |-> TRUE, hdr |-> <<>>]
NoColumns  == [noRows |-> FALSE, hdr |-> <<>>]
NoDates    == [noRows |-> FALSE, hdr |-> <<Undated(2)>>]

\* The documents: without table, of two weeks, and of a week before and a
\* week after a table that cannot be mapped.
Documents ==
    {<<>>, <<TwoDays, SecondDay>>, <<FirstDay, NoRowsAtAll, SecondDay>>,
     <<FirstDay, NoColumns, SecondDay>>, <<FirstDay, NoDates, SecondDay>>}

\* The rowspan attributes and the cells of the documents' tables.
DocRowspanAttrs == {NoAttr, Attr("3")}
DocCells == {[class |-> "v", html |-> Session]}

InitDoc ==
    /\ pc = "doc"
    /\ tables \in Documents
    /\ tableNo = 0 /\ all = <<>> /\ prevOcc = <<>>
    /\ LinesIdle /\ CellIdle /\ HeaderIdle /\ GridIdle /\ CycleIdle /\ DedupeIdle /\ KeyIdle

\* The callback of doc.Find("table").Each up to the call of parseWeekTable
\* for the next table.
EnterTable ==
    /\ pc = "doc"
    /\ tableNo < Len(tables)
    /\ tableNo' = tableNo + 1
    /\ noRows' = tables[tableNo + 1].noRows
    /\ hdr' = tables[tableNo + 1].hdr
    /\ events' = <<>> /\ colCursor' = 0 /\ rowNo' = 0 /\ cellNo' = 0
    /\ active' = {} /\ last' = NoCell
    /\ prevOcc' = occ
    /\ pc' = "table"
    /\ UNCHANGED <<occ, all, tables, headerVars, linesVars, cellVars, cycleVars, dedupeVars, keyVars>>

\* The callback that ends the loop at a table without events.
AppendEvents_StopOnEmpty ==
    /\ pc = "returned"
    /\ all' = IF Len(events) > 0 THEN all \o events ELSE all
    /\ pc' = IF Len(events) > 0 THEN "doc" ELSE "done"
    /\ UNCHANGED <<tableNo, tables, prevOcc, gridVars, headerVars, linesVars, cellVars,
                   cycleVars, dedupeVars, keyVars>>

\* The rest of the callback: the events parseWeekTable returned are appended
\* to all when there are any.
AppendEvents ==
    /\ pc = "returned"
    /\ all' = IF Len(events) > 0 THEN all \o events ELSE all
    /\ pc' = "doc"
    /\ UNCHANGED <<tableNo, tables, prevOcc, gridVars, headerVars, linesVars, cellVars,
                   cycleVars, dedupeVars, keyVars>>

\* return all, nil
ReturnAll ==
    /\ pc = "doc"
    /\ tableNo = Len(tables)
    /\ pc' = "done"
    /\ UNCHANGED <<docVars, gridVars, headerVars, linesVars, cellVars, cycleVars,
                   dedupeVars, keyVars>>

NextDoc ==
    \/ EnterTable
    \/ ParseHeader
    \/ BeginRow
    \/ \E rowspan \in DocRowspanAttrs, cell \in DocCells :
          PlaceCell(NoAttr, rowspan, cell.class, cell.html)
    \/ ReturnEvents
    \/ AppendEvents
    \/ ReturnAll

SpecDoc == InitDoc /\ [][NextDoc]_vars

\* The table under way.
Table == tables[tableNo]

\* A table that cannot be mapped: it has no rows, its header has no cell and
\* so no column, or no cell of its header has a date.
Unmappable(t) == t.noRows \/ t.hdr = <<>> \/ \A i \in 1..Len(t.hdr) : ~t.hdr[i].ok

\* C16: a table that cannot be mapped gives no event and changes nothing of
\* what the document has given so far, and the tables after it are parsed:
\* parseScheduleDetails returns only when every table has been entered.
C16_UnmappableTable ==
    /\ [](tableNo >= 1 /\ Unmappable(Table) =>
              /\ pc \in {"table", "returned", "doc", "done"}
              /\ events = <<>>)
    /\ [](pc = "done" => tableNo = Len(tables))
    /\ [][pc = "returned" /\ Unmappable(Table) => all' = all /\ pc' = "doc"]_vars
    /\ [][pc = "returned" /\ pc' # pc => all' = all \o events]_vars

\* C16 happens: the session of the week after a table that cannot be mapped
\* is in the result, behind the session of the week before it.
C16_Witness ==
    /\ pc = "done"
    /\ Len(tables) = 3 /\ Unmappable(tables[2])
    /\ Len(all) = 2
    /\ DayOf(all[1].Start) = DayDate(1)
    /\ DayOf(all[2].Start) = DayDate(2)

\* The number of columns of a header.
RECURSIVE Width(_)
Width(h) == IF h = <<>> THEN 0 ELSE Head(h).cs + Width(Tail(h))

\* C18: each table starts with an occupancy array of zeros as wide as its
\* own header, and with its own dates: the first cell of its first row is
\* placed in column 0 and has the date of its own first header cell,
\* whatever the table before left reserved.
C18_PerTableState ==
    /\ [][pc = "table" /\ pc' = "rows" =>
              /\ DOMAIN occ' = 0..(Width(hdr) - 1)
              /\ \A c \in DOMAIN occ' : occ'[c] = 0
              /\ totalCols' = Width(hdr)]_vars
    /\ [](pc = "rows" /\ rowNo = 1 /\ cellNo = 1 =>
              /\ last.placed /\ last.start = 0
              /\ (last.v /\ last.html = Session) => (last.emitted <=> hdr[1].ok)
              /\ last.emitted => DayOf(events[Len(events)].Start) = hdr[1].date)

\* C18 happens: the table before ended with column 0 reserved, its header
\* giving another date for it, and the first cell of this table is placed in
\* column 0 and has the date of this table.
C18_Witness ==
    /\ pc = "rows" /\ tableNo = 2 /\ rowNo = 1 /\ cellNo = 1
    /\ 0 \in DOMAIN prevOcc /\ prevOcc[0] > 0
    /\ tables[1].hdr[1].date = DayDate(1)
    /\ last.emitted /\ last.start = 0
    /\ DayOf(events[1].Start) = DayDate(2)


(***************************************************************************)
(* SpecCycle: runFullCycle.  The links of the main page and what the       *)
(* detail page of each gives (a fetch error, no event, events) are given;  *)
(* every write to the file system may fail.                                *)
(***************************************************************************)

\* The links of the main page at most.
MaxLinks == 2

\* The course names of the links.
BlockA3     == "DBWINFO-A04 - 3. Blockphase"
BlockA5     == "DBWINFO-A04-2 - 5. Blockphase"
TwoCodes    == "DBING-01 DBWINFO-A04"
Cohort      == "DBING-01-2024 ^ 4. Blockphase"
ProgramOnly == "DBING - 2. Block"
NoProgram   == "Sommerfest"

CourseNames == {BlockA3, BlockA5, TwoCodes, Cohort, ProgramOnly, NoProgram}

\* A link: the course name, and what parseScheduleDetails makes of its page.
CourseLinks ==
    [name : CourseNames, page : {"events"}] \cup
    {[name |-> BlockA5, page |-> "error"], [name |-> Cohort, page |-> "empty"]}

LinkLists == UNION {[1..n -> CourseLinks] : n \in 0..MaxLinks}

\* parseScheduleDetails(link): the events of the page, one lecture here.
pageEvents(link) ==
    IF link.page = "events"
    THEN <<[Lecture(9, "Mathe", "R1", "Vorlesung") EXCEPT !.CourseName = link.name]>>
    ELSE <<>>

\* extractClassKey and the file name of each course name.
ClassKeys == {<<n, extractClassKey(n), icsFile(n)>> : n \in CourseNames}

classKeyOf(n) == (CHOOSE t \in ClassKeys : t[1] = n)[2]
courseFile(n) == (CHOOSE t \in ClassKeys : t[1] = n)[3]

\* The empty map and the empty directory.
NoEntries == <<>>

\* classEvents[key], nil for a key the map does not have.
bucket(m, key) == IF key \in DOMAIN m THEN m[key] ELSE <<>>

\* The outcomes of generateICS: written, os.Create failed, WriteString
\* failed.
WriteOutcomes == {"ok", "create", "write"}

\* The directory after generateICS(name, evs) with the outcome o.
written(dir, file, evs, o) ==
    IF o = "create" THEN dir
    ELSE (file :> (IF o = "ok" THEN evs ELSE <<>>)) @@ dir

InitCycle ==
    /\ pc = "start"
    /\ links \in LinkLists
    /\ linkNo = 0 /\ classEvents = NoEntries /\ todo = {}
    /\ files = ("stale.ics" :> <<>>) /\ site = {} /\ err = ""
    /\ aggregated = <<>> /\ individual = <<>>
    /\ LinesIdle /\ CellIdle /\ HeaderIdle /\ GridIdle /\ DocIdle /\ DedupeIdle /\ KeyIdle

\* runFullCycle up to the loop over the links: the output directory is
\* removed (a failure is ignored) and made, and the links are extracted.
StartCycle(removed, o) ==
    /\ pc = "start"
    /\ files' = IF removed THEN NoEntries ELSE files
    /\ IF o = "ok" THEN pc' = "links" /\ err' = ""
       ELSE pc' = "returned" /\ err' = o
    /\ UNCHANGED <<links, linkNo, classEvents, todo, site, aggregated, individual, linesVars,
                   cellVars, headerVars, gridVars, docVars, dedupeVars, keyVars>>

\* The body of the loop that goes on when generateICS fails, as main does.
ProcessLink_LogOnly(o) ==
    /\ pc = "links"
    /\ linkNo < Len(links)
    /\ LET link   == links[linkNo + 1]
           evs    == pageEvents(link)
           key    == classKeyOf(link.name)
       IN IF link.page = "error" \/ Len(evs) = 0
          THEN /\ linkNo' = linkNo + 1
               /\ UNCHANGED <<pc, classEvents, files, err>>
          ELSE /\ files' = written(files, courseFile(link.name), evs, o)
               /\ classEvents' = (key :> (bucket(classEvents, key) \o evs)) @@ classEvents
               /\ linkNo' = linkNo + 1
               /\ UNCHANGED <<pc, err>>
    /\ UNCHANGED <<links, todo, site, aggregated, individual, linesVars,
                   cellVars, headerVars, gridVars, docVars, dedupeVars, keyVars>>

\* The body of the loop over the links, for the next link.
ProcessLink(o) ==
    /\ pc = "links"
    /\ linkNo < Len(links)
    /\ LET link   == links[linkNo + 1]
           evs    == pageEvents(link)
           key    == classKeyOf(link.name)
       IN IF link.page = "error" \/ Len(evs) = 0
          THEN /\ linkNo' = linkNo + 1
               /\ UNCHANGED <<pc, classEvents, files, err>>
          ELSE /\ files' = written(files, courseFile(link.name), evs, o)
               /\ IF o # "ok"
                  THEN /\ pc' = "returned" /\ err' = o
                       /\ UNCHANGED <<linkNo, classEvents>>
                  ELSE /\ classEvents' =
                              (key :> (bucket(classEvents, key) \o evs)) @@ classEvents
                       /\ linkNo' = linkNo + 1
                       /\ UNCHANGED <<pc, err>>
    /\ UNCHANGED <<links, todo, site, aggregated, individual, linesVars,
                   cellVars, headerVars, gridVars, docVars, dedupeVars, keyVars>>

\* The loop over the links is done: range classEvents.
RangeClasses ==
    /\ pc = "links"
    /\ linkNo = Len(links)
    /\ todo' = DOMAIN classEvents
    /\ pc' = "classes"
    /\ UNCHANGED <<links, linkNo, classEvents, files, site, aggregated, individual, err,
                   linesVars, cellVars, headerVars, gridVars, docVars, dedupeVars, keyVars>>

\* The body of the loop over the class keys, for a key the range gives.
WriteAggregated(o) ==
    /\ pc = "classes"
    /\ \E key \in todo :
          /\ todo' = todo \ {key}
          /\ IF Len(classEvents[key]) = 0
             THEN UNCHANGED <<pc, files, err>>
             ELSE /\ files' = written(files, icsFile(key),
                                      dedupeEvents(classEvents[key]), o)
                  /\ IF o # "ok" THEN pc' = "returned" /\ err' = o
                     ELSE UNCHANGED <<pc, err>>
    /\ UNCHANGED <<links, linkNo, classEvents, site, aggregated, individual,
                   linesVars, cellVars, headerVars, gridVars, docVars, dedupeVars, keyVars>>

\* The pages of the site, in the order generateSite writes them.
SitePages == <<"index.html", "all.html", "help-google.html">>

\* generateSite and the return of runFullCycle: the ICS files are copied,
\* their sorted names are split, then the pages are written, index.html
\* listing the aggregated names; done pages are those written before a
\* failure, all of them without one.
GenerateSite(copied, done) ==
    /\ pc = "classes"
    /\ todo = {}
    /\ LET split == splitAggregated(SortStrings(DOMAIN files))
       IN /\ aggregated' = IF copied THEN split[1] ELSE <<>>
          /\ individual' = IF copied THEN split[2] ELSE <<>>
    /\ site' = IF copied
               THEN {"ics_files/" \o f : f \in DOMAIN files} \cup
                    {SitePages[i] : i \in 1..done}
               ELSE {}
    /\ err' = IF copied /\ done = Len(SitePages) THEN "" ELSE "generateSite"
    /\ pc' = "returned"
    /\ UNCHANGED <<links, linkNo, classEvents, todo, files, linesVars, cellVars,
                   headerVars, gridVars, docVars, dedupeVars, keyVars>>

NextCycle ==
    \/ \E removed \in BOOLEAN, o \in {"ok", "mkdir", "parseMainSchedulePage"} :
          StartCycle(removed, o)
    \/ \E o \in WriteOutcomes : ProcessLink(o)
    \/ RangeClasses
    \/ \E o \in WriteOutcomes : WriteAggregated(o)
    \/ \E copied \in BOOLEAN, done \in 0..Len(SitePages) : GenerateSite(copied, done)

SpecCycle == InitCycle /\ [][NextCycle]_vars

\* The Series Key and the file of each course name, as the names read.
SeriesKey(n) ==
    CASE n = BlockA3     -> "DBWINFO-A04"
      [] n = BlockA5     -> "DBWINFO-A04"
      [] n = TwoCodes    -> "DBWINFO-A04"
      [] n = Cohort      -> "DBING-01"
      [] n = ProgramOnly -> "DBING"
      [] n = NoProgram   -> "Other"

CalendarFile(n) ==
    CASE n = BlockA3     -> "DBWINFO-A04_-_3_Blockphase.ics"
      [] n = BlockA5     -> "DBWINFO-A04-2_-_5_Blockphase.ics"
      [] n = TwoCodes    -> "DBING-01_DBWINFO-A04.ics"
      [] n = Cohort      -> "DBING-01-2024_4_Blockphase.ics"
      [] n = ProgramOnly -> "DBING_-_2_Block.ics"
      [] n = NoProgram   -> "Sommerfest.ics"

\* The links done whose page gave events.
Parsed == {i \in 1..linkNo : links[i].page = "events"}

\* The events of the links done that have the Series Key k, in link order.
RECURSIVE Merged(_, _)
Merged(k, i) ==
    IF i > linkNo THEN <<>>
    ELSE (IF i \in Parsed /\ SeriesKey(links[i].name) = k
          THEN pageEvents(links[i]) ELSE <<>>) \o Merged(k, i + 1)

\* C12: the bucket of a course is that of its Series Key, letter class
\* before numeric cohort before program code before "Other": the buckets are
\* those of the Series Keys of the courses with events, and each holds the
\* events of its courses in link order.
C12_SeriesKeyBuckets ==
    pc \in {"links", "classes", "returned"} =>
        /\ DOMAIN classEvents = {SeriesKey(links[i].name) : i \in Parsed}
        /\ \A k \in DOMAIN classEvents : classEvents[k] = Merged(k, 1)

\* C12 happens: the third and the fifth block phase of DBWINFO-A04 are in
\* one bucket.
C12_Witness ==
    /\ pc = "classes"
    /\ Len(links) = 2
    /\ links[1] = [name |-> BlockA3, page |-> "events"]
    /\ links[2] = [name |-> BlockA5, page |-> "events"]
    /\ DOMAIN classEvents = {"DBWINFO-A04"}
    /\ Len(classEvents["DBWINFO-A04"]) = 2
    /\ classEvents["DBWINFO-A04"][1].CourseName = BlockA3
    /\ classEvents["DBWINFO-A04"][2].CourseName = BlockA5

\* C17: a cycle that returns nil has written index.html, has gone through
\* every link, and has left in the output directory the file of each course
\* whose page gave events and the file of its class key; a link whose page
\* fails or gives no event changes nothing and the loop goes on.
C17_CycleArtifacts ==
    /\ [](pc = "returned" /\ err = "" =>
              /\ "index.html" \in site
              /\ linkNo = Len(links)
              /\ \A i \in 1..Len(links) : links[i].page = "events" =>
                     /\ CalendarFile(links[i].name) \in DOMAIN files
                     /\ (SeriesKey(links[i].name) \o ".ics") \in DOMAIN files)
    /\ [][pc = "links" /\ linkNo < Len(links) /\ links[linkNo + 1].page # "events" =>
              /\ pc' = "links" /\ linkNo' = linkNo + 1
              /\ files' = files /\ classEvents' = classEvents /\ err' = err]_vars

\* C17 happens: a cycle over a link whose page failed and a link with
\* events has returned nil.
C17_Witness ==
    /\ pc = "returned" /\ err = ""
    /\ Len(links) = 2
    /\ links[1].page = "error"
    /\ links[2] = [name |-> Cohort, page |-> "events"]
    /\ "index.html" \in site
    /\ DOMAIN files = {"DBING-01-2024_4_Blockphase.ics", "DBING-01.ics"}


\* The names of a list.
Names(ns) == {ns[i] : i \in 1..Len(ns)}

MaxParts == 3

\* What course names are made of: a program code, a letter class, a
\* numeric cohort, a hyphen, and other text.
KeyTokens == {"DBWI", "A04", "01", "-", "x"}

PartLists == UNION {[1..n -> KeyTokens] : n \in 0..MaxParts}

\* What a hyphen is written as: the hyphen, an underscore, a space, a dot,
\* a dash, a non-breaking hyphen, and a run.
Separators == {"-", "_", " ", ".", EnDash, NonBreakingHyphen, "--"}

\* The names that differ from the name of the parts ts in the writing of
\* its hyphens only.
RECURSIVE Variants(_)
Variants(ts) ==
    IF ts = <<>> THEN {""}
    ELSE {h \o t : h \in (IF Head(ts) = "-" THEN Separators ELSE {Head(ts)}),
                   t \in Variants(Tail(ts))}

InitKey ==
    /\ pc = "name"
    /\ \E ts \in PartLists : course = Concat(ts) /\ variant \in Variants(ts)
    /\ classKey = "" /\ variantKey = "" /\ reKey = ""
    /\ LinesIdle /\ CellIdle /\ HeaderIdle /\ GridIdle /\ DocIdle /\ CycleIdle
    /\ DedupeIdle

\* classKey := extractClassKey(course)
DeriveKey ==
    /\ pc = "name"
    /\ classKey' = extractClassKey(course)
    /\ pc' = "keyed"
    /\ UNCHANGED <<course, variant, variantKey, reKey, linesVars, cellVars, headerVars,
                   gridVars, docVars, cycleVars, dedupeVars>>

\* variantKey := extractClassKey(variant)
DeriveVariantKey ==
    /\ pc = "keyed"
    /\ variantKey' = extractClassKey(variant)
    /\ pc' = "both"
    /\ UNCHANGED <<course, variant, classKey, reKey, linesVars, cellVars, headerVars,
                   gridVars, docVars, cycleVars, dedupeVars>>

\* reKey := extractClassKey(classKey)
DeriveAgain ==
    /\ pc = "both"
    /\ reKey' = extractClassKey(classKey)
    /\ pc' = "rekeyed"
    /\ UNCHANGED <<course, variant, classKey, variantKey, linesVars, cellVars,
                   headerVars, gridVars, docVars, cycleVars, dedupeVars>>

NextKey == DeriveKey \/ DeriveVariantKey \/ DeriveAgain

SpecKey == InitKey /\ [][NextKey]_vars

\* C22: the key of a key is that key, and a name written with dashes,
\* underscores, spaces, dots or runs of them for its hyphens has the key of
\* the name written with hyphens.
C22_KeyNormalForm ==
    /\ pc = "rekeyed" => reKey = classKey
    /\ pc \in {"both", "rekeyed"} => variantKey = classKey

====
